---- MODULE Spec2Model ----
(***************************************************************************)
(* Workflow lease store of lidex-mongo: the `workflows` collection and the *)
(* operations insert, claim, find*, setAsFinished and update* that the     *)
(* persistence object issues against it.  Two builds of the persistence    *)
(* object are in the repository: the class MongoPersistence (src/index.ts) *)
(* and the factory makeMongoPersistence; they differ in claim only.        *)
(***************************************************************************)
EXTENDS Integers, FiniteSets, Sequences, TLC

\* ---------------------------------------------------------------- bounds
MaxTime == 2
MaxLease == 2
MaxFailures == 1
Horizon == 4
MaxCallers == 3

\* ---------------------------------------------------------------- inputs
WorkflowIds == {"wf-1", "wf-2"}
Handlers == {"h1", "h2"}
Inputs == {"in1"}
StepIds == {"s1"}
Outputs == {"o1"}
NapIds == {"n1"}
MemoKeys == {"k1", "a", "a.b"}
MemoOutputs == {"o1", "o2"}
RaceInputs == {"in1", "in2"}
Errors == {"boom"}
Builds == {"MongoPersistence", "makeMongoPersistence"}

Status == {"idle", "running", "failed", "finished", "aborted"}

\* Dates: every value a timeoutAt or a wakeUpAt can take in the model.
Dates == 0 .. (MaxTime + MaxLease)
LeaseDates(now) == (now + 1) .. (now + MaxLease)
WakeDates == {MaxTime}

\* The callers that race to insert one id
Callers == 1 .. MaxCallers

VARIABLES
    callers,    \* per racing caller, how far its insert call has got
    build,      \* which persistence object the workers were given
    workflows,  \* the documents of the collection "workflows"
    clock,      \* the wall clock the callers read `now` from
    last,       \* the call that was made last, with its result
    leases,     \* history: claims that returned an instance not written since
    finish,     \* history: per id, whether setAsFinished was applied to it
    given,      \* history: per id, the handler and input of the insert that created it
    scen        \* history: how far the calls made so far follow the example scenario

vars == <<callers, build, workflows, clock, last, leases, finish, given, scen>>

\* ------------------------------------------------------------- documents
\* An optional field is a set with at most one element; steps and naps are
\* functions on the keys that were set.
Workflow(workflowId, handler, input) ==
    [id |-> workflowId, handler |-> handler, input |-> input, status |-> "idle",
     timeoutAt |-> {}, failures |-> {}, lastError |-> {},
     steps |-> <<>>, naps |-> <<>>]

\* insertOne on a collection without the unique index
DuplicateKey_NoIndex(coll, doc) == FALSE

\* a unique index on the whole document
DuplicateKey_SameDocument(coll, doc) == doc \in coll

\* The unique index on id: insertOne is rejected (code 11000) when a document
\* with the same id is stored.
DuplicateKey(coll, doc) == \E d \in coll : d.id = doc.id

\* { id: workflowId }
ById(coll, workflowId) == {d \in coll : d.id = workflowId}

\* The field path below steps or naps that the template `steps.${stepId}`
\* names: the store splits the id at its dots.
Segments(key) ==
    CASE key = "a.b" -> <<"a", "b">>
      [] OTHER -> <<key>>

IsPrefix(q, p) == Len(q) <= Len(p) /\ SubSeq(p, 1, Len(q)) = q

\* An embedded document (steps, naps) is the function from the paths of its
\* leaves to their values.
\* $set of a path is rejected when a proper prefix of the path holds a value
\* that is not a document.
PathViable(m, p) == ~ \E q \in DOMAIN m : Len(q) < Len(p) /\ IsPrefix(q, p)

\* $set of a path: the value replaces whatever is stored at or below the path.
SetPath(m, p, v) ==
    LET kept == {q \in DOMAIN m : ~IsPrefix(p, q)}
    IN  [q \in kept \cup {p} |-> IF q = p THEN v ELSE m[q]]

\* projection { [`steps.${stepId}`]: 1 }: what is stored at or below the path
Project(m, p) ==
    LET kept == {q \in DOMAIN m : IsPrefix(p, q)}
    IN  [q \in kept |-> m[q]]

\* workflow.steps[stepId]: the property of the embedded document that has the
\* id as its name; a value, an embedded document, or undefined ({}).
Property(m, key) ==
    LET below == {q \in DOMAIN m : Len(q) > 1 /\ q[1] = key}
    IN  IF <<key>> \in DOMAIN m THEN {[value |-> m[<<key>>]]}
        ELSE IF below # {} THEN {[document |-> [r \in {Tail(q) : q \in below} |-> m[<<key>> \o r]]]}
        ELSE {}

\* The error of updateOne for a path that is not viable
PathNotViable == [name |-> "MongoServerError", code |-> {28}]

\* $gt in place of $lt
ClaimFilter_Gt(d, bound) ==
    \/ d.status = "idle"
    \/ /\ d.status \in {"running", "failed"}
       /\ \E t \in d.timeoutAt : t > bound

\* "aborted" among the statuses of $in
ClaimFilter_Aborted(d, bound) ==
    \/ d.status = "idle"
    \/ /\ d.status \in {"running", "failed", "aborted"}
       /\ \E t \in d.timeoutAt : t < bound

\* "finished" among the statuses of $in
ClaimFilter_Finished(d, bound) ==
    \/ d.status = "idle"
    \/ /\ d.status \in {"running", "failed", "finished"}
       /\ \E t \in d.timeoutAt : t < bound

\* no $or: the timeoutAt condition applied to idle documents too
ClaimFilter_NoOr(d, bound) ==
    /\ d.status \in {"idle", "running", "failed"}
    /\ \E t \in d.timeoutAt : t < bound

\* only the first branch of $or
ClaimFilter_IdleOnly(d, bound) == d.status = "idle"

\* $lte in place of $lt
ClaimFilter_Lte(d, bound) ==
    \/ d.status = "idle"
    \/ /\ d.status \in {"running", "failed"}
       /\ \E t \in d.timeoutAt : t <= bound

\* The filter of claim: idle, or running/failed with timeoutAt < bound.  A
\* document without timeoutAt does not match $lt.
ClaimFilter(d, bound) ==
    \/ d.status = "idle"
    \/ /\ d.status \in {"running", "failed"}
       /\ \E t \in d.timeoutAt : t < bound

ClaimSet_StatusOnly(d, timeoutAt) == [d EXCEPT !.status = "running"]

\* The $set of claim
ClaimSet(d, timeoutAt) == [d EXCEPT !.status = "running", !.timeoutAt = {timeoutAt}]

\* findOneAndUpdate(filter, $set): picked, if not empty, is the one matching
\* document the store picked; the result is the document's id projection.
FindOneAndUpdate(coll, picked, timeoutAt) ==
    {IF d \in picked THEN ClaimSet(d, timeoutAt) ELSE d : d \in coll}

\* ---------------------------------------------------------------- history
Touch(workflowId) == {l \in leases : l.id # workflowId}

\* The instance is held, now, under a lease that a claim took over from an
\* earlier holder: when that claim returned it, the instance was running under
\* the lease of an earlier claim, and that lease had ended.
Reclaimed(workflowId) ==
    \E l \in leases : l.id = workflowId /\ l.reclaim /\ clock <= l.until

\* The example scenario: on an empty store, insert wf-1 (1), claim (2), the
\* same claim again (3), a claim after the first lease (4), setAsFinished (5)
\* and a last claim (6).  Time may pass between the calls, except between the
\* first two claims.  Any other call leaves the scenario.
Off == [pos |-> -1, until |-> 0]

Follow ==
    scen' =
        CASE last'.op = "tick" ->
                 IF scen.pos = 2 THEN Off ELSE scen
          [] last'.op = "insert" ->
                 IF scen.pos = 0 /\ workflows = {} /\ last'.id = "wf-1"
                    /\ last'.rejected = {}
                 THEN [scen EXCEPT !.pos = 1] ELSE Off
          [] last'.op = "claim" ->
                 IF scen.pos = 1
                 THEN [pos |-> 2, until |-> last'.leaseUntil]
                 ELSE IF scen.pos = 2 /\ last'.now = last.now
                         /\ last'.leaseUntil = last.leaseUntil
                 THEN [scen EXCEPT !.pos = 3]
                 ELSE IF scen.pos = 3 /\ last'.now > scen.until
                 THEN [scen EXCEPT !.pos = 4]
                 ELSE IF scen.pos = 5
                 THEN [scen EXCEPT !.pos = 6]
                 ELSE Off
          [] last'.op = "setAsFinished" ->
                 IF scen.pos = 4 /\ last'.id = "wf-1"
                 THEN [scen EXCEPT !.pos = 5] ELSE Off
          [] OTHER -> Off

\* ------------------------------------------------------------- operations
Init ==
    /\ callers = [c \in Callers |-> [pc |-> "idle"]]
    /\ build \in Builds
    /\ workflows = {}
    /\ clock = 0
    /\ last = [op |-> "new"]
    /\ leases = {}
    /\ finish = [i \in WorkflowIds |-> "no"]
    /\ given = [i \in WorkflowIds |-> {}]
    /\ scen = [pos |-> 0, until |-> 0]

\* What insertOne can be rejected with, apart from the duplicate key.
StorageErrors ==
    {[name |-> "Error", code |-> {}],
     [name |-> "MongoServerError", code |-> {50}],
     [name |-> "MongoError", code |-> {11000}]}

\* The rejection of insertOne by the unique index on id
DuplicateKeyError == [name |-> "MongoServerError", code |-> {11000}]

\* insertOne(doc): the error it is rejected with, if any.  fault is the
\* failure of the store or of the connection, if there is one.
InsertOneError(coll, doc, fault) ==
    IF fault # {} THEN fault
    ELSE IF DuplicateKey(coll, doc) THEN {DuplicateKeyError}
    ELSE {}

\* a catch that looks at the code only
AlreadyStarted_CodeOnly(e) == e.code = {11000}

\* catch: "Workflow already started, ignore."
AlreadyStarted(e) == e.name = "MongoServerError" /\ e.code = {11000}

\* an insert that replaces the stored document of the same id
Insert_Replace(workflowId, handler, input, fault) ==
    LET doc == Workflow(workflowId, handler, input)
    IN  /\ workflows' = {d \in workflows : d.id # workflowId} \cup {doc}
        /\ last' = [op |-> "insert", id |-> workflowId, handler |-> handler,
                    input |-> input, rejected |-> {}, result |-> TRUE]
        /\ given' = IF ById(workflows, workflowId) = {}
                    THEN [given EXCEPT ![workflowId] = {[handler |-> handler, input |-> input]}]
                    ELSE given
        /\ UNCHANGED <<build, clock, leases, finish>>
        /\ Follow

\* insert, with the failure the store answers with (none: {}).
Insert(workflowId, handler, input, fault) ==
    LET doc == Workflow(workflowId, handler, input)
        error == InsertOneError(workflows, doc, fault)
    IN  /\ workflows' = IF error = {} THEN workflows \cup {doc} ELSE workflows
        /\ last' = IF \E e \in error : ~AlreadyStarted(e)
                   THEN [op |-> "insert", id |-> workflowId, handler |-> handler,
                         input |-> input, rejected |-> error, thrown |-> error]
                   ELSE [op |-> "insert", id |-> workflowId, handler |-> handler,
                         input |-> input, rejected |-> error, result |-> error = {}]
        /\ given' = IF error = {}
                    THEN [given EXCEPT ![workflowId] = {[handler |-> handler, input |-> input]}]
                    ELSE given
        /\ UNCHANGED <<build, clock, leases, finish>>
        /\ Follow

\* insert on a store that works
insert(workflowId, handler, input) ==
    /\ Insert(workflowId, handler, input, {})
    /\ UNCHANGED callers

\* Callers that race: a caller invokes insert (called), the store runs its
\* insertOne and the method reaches its return or its catch (settled), and
\* the caller gets the promise's value (returned).
insert_call(c, workflowId, handler, input) ==
    /\ callers[c].pc = "idle"
    /\ callers' = [callers EXCEPT ![c] =
                      [pc |-> "called", id |-> workflowId,
                       handler |-> handler, input |-> input]]
    /\ UNCHANGED <<build, workflows, clock, last, leases, finish, given, scen>>

insert_settle(c) ==
    /\ callers[c].pc = "called"
    /\ Insert(callers[c].id, callers[c].handler, callers[c].input, {})
    /\ callers' = [callers EXCEPT ![c] =
                      [pc |-> "settled", id |-> callers[c].id,
                       handler |-> callers[c].handler, input |-> callers[c].input,
                       value |-> IF "result" \in DOMAIN last' THEN {last'.result} ELSE {},
                       thrown |-> IF "thrown" \in DOMAIN last' THEN last'.thrown ELSE {}]]

insert_return(c) ==
    /\ callers[c].pc = "settled"
    /\ callers' = [callers EXCEPT ![c].pc = "returned"]
    /\ UNCHANGED <<build, workflows, clock, last, leases, finish, given, scen>>

\* The store's part of claim, common to both builds: bound is the date the
\* filter compares with, timeoutAt the date written.
ClaimCall(now, leaseUntil, bound, timeoutAt) ==
    LET eligible == {d \in workflows : ClaimFilter(d, bound)}
    IN  \E picked \in SUBSET eligible :
          /\ IF eligible = {} THEN picked = {} ELSE Cardinality(picked) = 1
          /\ workflows' = FindOneAndUpdate(workflows, picked, timeoutAt)
          /\ last' = [op |-> "claim", now |-> now, leaseUntil |-> leaseUntil,
                      result |-> {d.id : d \in picked},
                      was |-> {[status |-> d.status, timeoutAt |-> d.timeoutAt] :
                                  d \in picked}]
          /\ leases' = {l \in leases : ~(l.until < now /\ \E d \in picked : d.id = l.id)} \cup
                 {[id |-> d.id, from |-> now, until |-> leaseUntil,
                   reclaim |-> /\ d.status = "running"
                               /\ \E l \in leases : l.id = d.id /\ l.until < now] :
                     d \in picked}
          /\ UNCHANGED <<callers, build, clock, finish, given>>
          /\ Follow

\* makeMongoPersistence.claim(now, timeoutAt)
makeMongoPersistence_claim(now, leaseUntil) ==
    /\ build = "makeMongoPersistence"
    /\ ClaimCall(now, leaseUntil, now, leaseUntil)

\* MongoPersistence.claim(timeoutAt), called as claim(now, leaseUntil): the one
\* parameter is bound to the first argument, the second is dropped.
MongoPersistence_claim(now, leaseUntil) ==
    LET arguments == <<now, leaseUntil>>
        timeoutAt == arguments[1]
    IN  /\ build = "MongoPersistence"
        /\ ClaimCall(now, leaseUntil, timeoutAt, timeoutAt)

\* $set with the status of a failed run
SetFinished_Failed(d) == [d EXCEPT !.status = "failed"]

\* $set of the status with $unset of timeoutAt
SetFinished_Release(d) == [d EXCEPT !.status = "finished", !.timeoutAt = {}]

\* $set: { status: "finished" }
SetFinished(d) == [d EXCEPT !.status = "finished"]

setAsFinished(workflowId) ==
    /\ workflows' = {IF d.id = workflowId THEN SetFinished(d) ELSE d : d \in workflows}
    /\ last' = [op |-> "setAsFinished", id |-> workflowId,
                reclaimed |-> Reclaimed(workflowId),
                was |-> {d.status : d \in ById(workflows, workflowId)}]
    /\ leases' = Touch(workflowId)
    /\ finish' = IF ById(workflows, workflowId) # {}
                 THEN [finish EXCEPT ![workflowId] = "finished"]
                 ELSE finish
    /\ UNCHANGED <<callers, build, clock, given>>
    /\ Follow

SetStatus_Fenced(d, status, timeoutAt, failures, lastError) ==
    IF d.status = "running" /\ \E t \in d.timeoutAt : t >= timeoutAt THEN d
    ELSE [d EXCEPT !.status = status, !.timeoutAt = {timeoutAt},
                   !.failures = {failures}, !.lastError = {lastError}]

\* $set: { status, timeoutAt, failures, lastError }
SetStatus(d, status, timeoutAt, failures, lastError) ==
    [d EXCEPT !.status = status, !.timeoutAt = {timeoutAt},
              !.failures = {failures}, !.lastError = {lastError}]

updateStatus(workflowId, status, timeoutAt, failures, lastError) ==
    /\ workflows' =
           {IF d.id = workflowId
            THEN SetStatus(d, status, timeoutAt, failures, lastError)
            ELSE d : d \in workflows}
    /\ last' = [op |-> "updateStatus", id |-> workflowId, reclaimed |-> Reclaimed(workflowId), status |-> status,
                timeoutAt |-> timeoutAt, failures |-> failures,
                lastError |-> lastError]
    /\ leases' = Touch(workflowId)
    /\ finish' = IF finish[workflowId] = "finished"
                    /\ status \in {"idle", "running", "failed"}
                 THEN [finish EXCEPT ![workflowId] = "rewritten"]
                 ELSE finish
    /\ UNCHANGED <<callers, build, clock, given>>
    /\ Follow

SetOutput_KeepLease(d, stepId, output, timeoutAt) ==
    [d EXCEPT !.steps = SetPath(d.steps, Segments(stepId), output)]

\* $set: { [`steps.${stepId}`]: output, timeoutAt }
SetOutput(d, stepId, output, timeoutAt) ==
    [d EXCEPT !.steps = SetPath(d.steps, Segments(stepId), output),
              !.timeoutAt = {timeoutAt}]

updateOutput(workflowId, stepId, output, timeoutAt) ==
    LET rejected == \E d \in ById(workflows, workflowId) :
                        ~PathViable(d.steps, Segments(stepId))
    IN  /\ workflows' =
               IF rejected THEN workflows
               ELSE {IF d.id = workflowId
                     THEN SetOutput(d, stepId, output, timeoutAt)
                     ELSE d : d \in workflows}
        /\ last' = IF rejected
                   THEN [op |-> "updateOutput", id |-> workflowId, reclaimed |-> Reclaimed(workflowId), stepId |-> stepId,
                         output |-> output, timeoutAt |-> timeoutAt,
                         thrown |-> {PathNotViable}]
                   ELSE [op |-> "updateOutput", id |-> workflowId, reclaimed |-> Reclaimed(workflowId), stepId |-> stepId,
                         output |-> output, timeoutAt |-> timeoutAt]
        /\ leases' = IF rejected THEN leases ELSE Touch(workflowId)
        /\ UNCHANGED <<callers, build, clock, finish, given>>
        /\ Follow

\* $set: { [`naps.${napId}`]: wakeUpAt, timeoutAt }
SetWakeUpAt(d, napId, wakeUpAt, timeoutAt) ==
    [d EXCEPT !.naps = SetPath(d.naps, Segments(napId), wakeUpAt),
              !.timeoutAt = {timeoutAt}]

updateWakeUpAt(workflowId, napId, wakeUpAt, timeoutAt) ==
    LET rejected == \E d \in ById(workflows, workflowId) :
                        ~PathViable(d.naps, Segments(napId))
    IN  /\ workflows' =
               IF rejected THEN workflows
               ELSE {IF d.id = workflowId
                     THEN SetWakeUpAt(d, napId, wakeUpAt, timeoutAt)
                     ELSE d : d \in workflows}
        /\ last' = IF rejected
                   THEN [op |-> "updateWakeUpAt", id |-> workflowId, reclaimed |-> Reclaimed(workflowId), napId |-> napId,
                         wakeUpAt |-> wakeUpAt, timeoutAt |-> timeoutAt,
                         thrown |-> {PathNotViable}]
                   ELSE [op |-> "updateWakeUpAt", id |-> workflowId, reclaimed |-> Reclaimed(workflowId), napId |-> napId,
                         wakeUpAt |-> wakeUpAt, timeoutAt |-> timeoutAt]
        /\ leases' = IF rejected THEN leases ELSE Touch(workflowId)
        /\ UNCHANGED <<callers, build, clock, finish, given>>
        /\ Follow

\* findOne({ id }, projection of one step) and the read of the property
FindOutput(coll, workflowId, stepId) ==
    IF ById(coll, workflowId) = {} THEN {}
    ELSE LET workflow == CHOOSE d \in coll : d.id = workflowId
         IN  Property(Project(workflow.steps, Segments(stepId)), stepId)

findOutput(workflowId, stepId) ==
    /\ last' = [op |-> "findOutput", id |-> workflowId, stepId |-> stepId,
                result |-> FindOutput(workflows, workflowId, stepId)]
    /\ UNCHANGED <<callers, build, workflows, clock, leases, finish, given>>
    /\ Follow

\* findOne({ id }, projection of one nap) and the read of the property
FindWakeUpAt(coll, workflowId, napId) ==
    IF ById(coll, workflowId) = {} THEN {}
    ELSE LET workflow == CHOOSE d \in coll : d.id = workflowId
         IN  Property(Project(workflow.naps, Segments(napId)), napId)

findWakeUpAt(workflowId, napId) ==
    /\ last' = [op |-> "findWakeUpAt", id |-> workflowId, napId |-> napId,
                result |-> FindWakeUpAt(workflows, workflowId, napId)]
    /\ UNCHANGED <<callers, build, workflows, clock, leases, finish, given>>
    /\ Follow

\* findOne({ id }, projection handler, input, failures)
FindRunData_Blank(coll, workflowId) ==
    {[handler |-> d.handler, input |-> d.input, failures |-> {}] :
        d \in ById(coll, workflowId)}

FindRunData(coll, workflowId) ==
    {[handler |-> d.handler, input |-> d.input, failures |-> d.failures] :
        d \in ById(coll, workflowId)}

findRunData(workflowId) ==
    /\ last' = [op |-> "findRunData", id |-> workflowId,
                result |-> FindRunData(workflows, workflowId)]
    /\ UNCHANGED <<callers, build, workflows, clock, leases, finish, given>>
    /\ Follow

FindStatus_Default(coll, workflowId) ==
    IF ById(coll, workflowId) = {} THEN {"idle"}
    ELSE {d.status : d \in ById(coll, workflowId)}

\* findOne({ id }, projection status), workflow?.status
FindStatus(coll, workflowId) == {d.status : d \in ById(coll, workflowId)}

findStatus(workflowId) ==
    /\ last' = [op |-> "findStatus", id |-> workflowId,
                result |-> FindStatus(workflows, workflowId)]
    /\ UNCHANGED <<callers, build, workflows, clock, leases, finish, given>>
    /\ Follow

\* The callers' clock advances, up to the date max; leases that ended before
\* the last instant are forgotten.
TickTo(max) ==
    /\ clock < max
    /\ clock' = clock + 1
    /\ last' = [op |-> "tick"]
    /\ leases' = {l \in leases : l.until >= clock}
    /\ UNCHANGED <<callers, build, workflows, finish, given>>
    /\ Follow

Tick == TickTo(MaxTime)

\* claim(now, leaseUntil) of the build in use
claim(now, leaseUntil) ==
    \/ makeMongoPersistence_claim(now, leaseUntil)
    \/ MongoPersistence_claim(now, leaseUntil)

\* Every operation on the instances ids, with every input of the sets above.
Calls(ids, handlers, statuses, counts) ==
    \/ \E i \in ids, h \in handlers, in \in Inputs : insert(i, h, in)
    \/ \E t \in LeaseDates(clock) : makeMongoPersistence_claim(clock, t)
    \/ \E t \in LeaseDates(clock) : MongoPersistence_claim(clock, t)
    \/ \E i \in ids : setAsFinished(i)
    \/ \E i \in ids, s \in statuses, t \in Dates, f \in counts, e \in Errors :
          updateStatus(i, s, t, f, e)

Memoize(ids, steps, outputs, naps, wakes, dates) ==
    \/ \E i \in ids, s \in steps, o \in outputs, t \in dates :
          updateOutput(i, s, o, t)
    \/ \E i \in ids, n \in naps, w \in wakes, t \in dates :
          updateWakeUpAt(i, n, w, t)

Reads(ids, steps, naps) ==
    \/ \E i \in ids, s \in steps : findOutput(i, s)
    \/ \E i \in ids, n \in naps : findWakeUpAt(i, n)
    \/ \E i \in ids : findRunData(i)
    \/ \E i \in ids : findStatus(i)

\* One instance, every operation.
Next ==
    \/ Calls({"wf-1"}, Handlers, Status, 1 .. MaxFailures)
    \/ Memoize({"wf-1"}, StepIds, Outputs, NapIds, WakeDates, Dates)
    \/ Reads({"wf-1"}, StepIds, NapIds)
    \/ Tick

Spec == Init /\ [][Next]_vars

\* Two instances and the operations that decide who may run them.
NextPair ==
    \/ Calls(WorkflowIds, {"h1"}, {"failed"}, {1})
    \/ Tick

SpecPair == Init /\ [][NextPair]_vars

\* One instance, the calls that change its status, and a store that can fail
\* an insert.
NextFault ==
    \/ Calls({"wf-1"}, Handlers, Status, 1 .. MaxFailures)
    \/ Tick
    \/ \E h \in Handlers, in \in Inputs, e \in StorageErrors :
          Insert("wf-1", h, in, {e}) /\ UNCHANGED callers

SpecFault == Init /\ [][NextFault]_vars

\* One instance that is inserted and one that never is, every operation on both.
NextAbsent ==
    \/ insert("wf-1", "h1", "in1")
    \/ \E t \in LeaseDates(clock) : claim(clock, t)
    \/ \E i \in WorkflowIds : setAsFinished(i)
    \/ \E i \in WorkflowIds, t \in LeaseDates(clock), e \in Errors :
          updateStatus(i, "failed", t, MaxFailures, e)
    \/ Memoize(WorkflowIds, StepIds, Outputs, NapIds, WakeDates, LeaseDates(clock))
    \/ Reads(WorkflowIds, StepIds, NapIds)
    \/ Tick

SpecAbsent == Init /\ [][NextAbsent]_vars

\* One instance, inserted again and again with other handlers and inputs
\* between the calls that write to it.
NextInput ==
    \/ \E h \in Handlers, in \in RaceInputs : insert("wf-1", h, in)
    \/ \E t \in LeaseDates(clock) : claim(clock, t)
    \/ setAsFinished("wf-1")
    \/ \E t \in LeaseDates(clock), e \in Errors :
          updateStatus("wf-1", "failed", t, MaxFailures, e)
    \/ Memoize({"wf-1"}, StepIds, Outputs, NapIds, WakeDates, LeaseDates(clock))
    \/ findRunData("wf-1")
    \/ Tick

SpecInput == Init /\ [][NextInput]_vars

\* One instance run in several attempts: claimed, its steps and naps recorded,
\* failed or finished, and claimed again.
NextAttempts ==
    \/ insert("wf-1", "h1", "in1")
    \/ \E t \in LeaseDates(clock) : claim(clock, t)
    \/ setAsFinished("wf-1")
    \/ \E t \in LeaseDates(clock), e \in Errors :
          updateStatus("wf-1", "failed", t, MaxFailures, e)
    \/ Memoize({"wf-1"}, MemoKeys, Outputs, MemoKeys, WakeDates, LeaseDates(clock))
    \/ \E s \in MemoKeys : findOutput("wf-1", s)
    \/ \E n \in MemoKeys : findWakeUpAt("wf-1", n)
    \/ Tick

SpecAttempts == Init /\ [][NextAttempts]_vars

\* Callers racing to insert the one id wf-1, with equal or different handlers.
NextRace ==
    \/ \E c \in Callers, h \in Handlers, in \in RaceInputs : insert_call(c, "wf-1", h, in)
    \/ \E c \in Callers : insert_settle(c)
    \/ \E c \in Callers : insert_return(c)

SpecRace == Init /\ [][NextRace]_vars

\* One instance and its two memo maps, written and read with several keys.
NextMemo ==
    \/ insert("wf-1", "h1", "in1")
    \/ Memoize({"wf-1"}, MemoKeys, MemoOutputs, MemoKeys, LeaseDates(clock), {MaxTime})
    \/ Reads({"wf-1"}, MemoKeys, MemoKeys)

SpecMemo == Init /\ [][NextMemo]_vars

\* The operations of the example scenario, on a clock that runs long enough
\* for two leases to end.
NextScenario ==
    \/ \E h \in Handlers, in \in Inputs : insert("wf-1", h, in)
    \/ \E t \in LeaseDates(clock) : makeMongoPersistence_claim(clock, t)
    \/ \E t \in LeaseDates(clock) : MongoPersistence_claim(clock, t)
    \/ setAsFinished("wf-1")
    \/ TickTo(Horizon)

SpecScenario == Init /\ [][NextScenario]_vars

\* The operations of a store whose workers stop after every claim: instances
\* are inserted and claimed, nothing else is written.  The clock keeps
\* advancing and claim keeps being called.
NextCrash ==
    \/ \E i \in WorkflowIds, in \in Inputs : insert(i, "h1", in)
    \/ \E t \in LeaseDates(clock) : makeMongoPersistence_claim(clock, t)
    \/ \E t \in LeaseDates(clock) : MongoPersistence_claim(clock, t)
    \/ Tick

SpecCrash ==
    /\ Init
    /\ [][NextCrash]_vars
    /\ WF_vars(Tick)
    /\ WF_vars(\E t \in LeaseDates(clock) : claim(clock, t))

\* ------------------------------------------------------------ properties
Stored(i) == CHOOSE d \in workflows : d.id = i
Exists(i) == \E d \in workflows : d.id = i

\* A claim made now with lease leaseUntil can return instance i.
Claimable(i, leaseUntil) == ENABLED (claim(clock, leaseUntil) /\ i \in last'.result)

\* A claim made at now with lease leaseUntil can return instance i.
ClaimableAt(i, now, leaseUntil) == ENABLED (claim(now, leaseUntil) /\ i \in last'.result)

Expired(d, now) == \E t \in d.timeoutAt : t < now
Pending(d, now) == \E t \in d.timeoutAt : t > now

\* C1: while no other write touches it, an instance that a claim returned with
\* lease leaseUntil is returned by no claim made at a time <= leaseUntil: at
\* every instant at most one unexpired lease is held on an instance.
C1_SingleOwnerLease ==
    \A i \in WorkflowIds :
        Cardinality({l \in leases : l.id = i /\ clock <= l.until}) <= 1

\* C2: of the claim calls racing for an idle instance with overlapping times,
\* one returns it (a claim never returns absent while an instance is idle) and
\* no call made within the winner's lease returns it as well.
C2_ClaimMutualExclusion ==
    [][last'.op = "claim" =>
         /\ (\E d \in workflows : d.status = "idle") => last'.result # {}
         /\ \A l \in leases : last'.now <= l.until => l.id \notin last'.result]_vars

\* C3: a running instance whose timeoutAt is before now is claimable, one whose
\* timeoutAt is after now is not, whatever leaseUntil > now is.
C3_TimeoutReclaim ==
    \A d \in workflows : \A t \in LeaseDates(clock) :
        d.status = "running" =>
            /\ Expired(d, clock) => Claimable(d.id, t)
            /\ Pending(d, clock) => ~Claimable(d.id, t)

C3_Witness ==
    /\ last.op = "claim"
    /\ \E w \in last.was : w.status = "running" /\ Expired(w, last.now)
    /\ \E d \in workflows : d.id \in last.result /\ Pending(d, clock)

\* C4: eligibility of a running or failed instance is timeoutAt < now, strictly
\* and whatever leaseUntil is, and the timeoutAt written is leaseUntil.
C4_TwoTimeArguments ==
    /\ \A d \in workflows : \A t \in LeaseDates(clock) :
          d.status \in {"running", "failed"} =>
              (Claimable(d.id, t) <=> Expired(d, clock))
    /\ last.op = "claim" =>
          \A d \in workflows :
              d.id \in last.result => d.timeoutAt = {last.leaseUntil}

\* C5: a failed instance whose timeoutAt is before now is claimable; a finished
\* or aborted one is not, whatever its timeoutAt, now and leaseUntil are.
C5_FailedReclaim ==
    \A d \in workflows : \A t \in LeaseDates(clock) :
        /\ (d.status = "failed" /\ Expired(d, clock)) => Claimable(d.id, t)
        /\ d.status \in {"finished", "aborted"} => ~Claimable(d.id, t)

C5_Witness ==
    /\ last.op = "claim"
    /\ \E w \in last.was : w.status = "failed" /\ Expired(w, last.now)
    /\ last.result # {}

\* C6: an idle instance is claimable, whether it has no timeoutAt or one
\* before or after now.
C6_IdleReclaim ==
    \A d \in workflows : \A t \in LeaseDates(clock) :
        d.status = "idle" => Claimable(d.id, t)

C6_Witness ==
    /\ last.op = "claim"
    /\ \E w \in last.was : w.status = "idle" /\ Pending(w, last.now)
    /\ last.result # {}

\* C7 as stated: once setAsFinished was applied to an instance, no claim
\* returns it, whatever was done since.
C7_TerminalFinish ==
    last.op = "claim" => \A i \in last.result : finish[i] = "no"

\* C7: once setAsFinished was applied to an instance, and as long as no
\* updateStatus has written idle, running or failed to it since, it is not
\* claimable and no claim returns it, whatever else was done and however far
\* now has advanced.
C7_FinishedUntilRewritten ==
    \A i \in WorkflowIds :
        finish[i] = "finished" =>
            /\ \A t \in LeaseDates(clock) : ~Claimable(i, t)
            /\ last.op = "claim" => i \notin last.result

C7_Witness ==
    /\ last.op = "claim"
    /\ last.result = {}
    /\ \E d \in workflows :
          finish[d.id] = "finished" /\ Expired(d, clock) /\ d.status = "finished"

\* The edges of the status state machine
Edges ==
    {<<"idle", "running">>, <<"running", "running">>, <<"running", "failed">>,
     <<"failed", "running">>, <<"running", "finished">>}
        \cup {<<s, "aborted">> : s \in Status \ {"finished", "aborted"}}

\* C8 as stated: every change of a status is an edge of the state machine, and
\* the status of a finished or aborted instance does not change.
C8_StatusStateMachine ==
    [][\A d \in workflows : \A e \in workflows' :
          (d.id = e.id /\ d.status # e.status) => <<d.status, e.status>> \in Edges]_vars

\* C8: claim changes a status from idle or failed to running only and leaves
\* finished and aborted instances alone; setAsFinished changes any status to
\* finished and updateStatus any status to the one it is given; no other
\* operation changes a status.
C8_StatusChanges ==
    [][\A d \in workflows : \A e \in workflows' :
          (d.id = e.id /\ d.status # e.status) =>
              \/ /\ last'.op = "claim"
                 /\ <<d.status, e.status>> \in {<<"idle", "running">>, <<"failed", "running">>}
              \/ /\ last'.op = "setAsFinished"
                 /\ e.status = "finished"
              \/ /\ last'.op = "updateStatus"
                 /\ e.status = last'.status]_vars

C8_Witness ==
    /\ last.op = "updateStatus"
    /\ last.status = "running"
    /\ finish[last.id] = "rewritten"
    /\ Exists(last.id)

\* C9: an instance that was claimed with a lease ending before the last date of
\* the clock, and is not written again, is eventually claimed again.
C9_AbandonedLeaseRecovery ==
    \A i \in WorkflowIds :
        (\E l \in leases : l.id = i /\ l.until < MaxTime)
            ~> (last.op = "claim" /\ i \in last.result /\ \E w \in last.was : w.status = "running")

C9_Witness ==
    /\ last.op = "claim"
    /\ last.result # {}
    /\ \E w \in last.was : w.status = "running"
    /\ Cardinality(workflows) = 2

\* C10: an insert with the id of a stored instance, whatever its status,
\* returns false and leaves the collection as it is; no two stored instances
\* have the same id.
C10_Uniqueness ==
    /\ [](\A d \in workflows : \A e \in workflows : d.id = e.id => d = e)
    /\ [][(last'.op = "insert" /\ Exists(last'.id)) =>
              (last'.result = FALSE /\ workflows' = workflows)]_vars

C10_Witness ==
    /\ last.op = "insert"
    /\ last.result = FALSE
    /\ Stored(last.id).handler # last.handler
    /\ Stored(last.id).status = "aborted"

\* C11: insert returns true when the instance is created, false without
\* raising when the store rejects the write for a duplicate id, and raises
\* the store's failure when it is any other; the collection is unchanged
\* whenever the instance is not created.
C11_InsertOutcomes ==
    [][last'.op = "insert" =>
         LET doc == Workflow(last'.id, last'.handler, last'.input)
             returned == IF "result" \in DOMAIN last' THEN {last'.result} ELSE {}
             raised == IF "thrown" \in DOMAIN last' THEN last'.thrown ELSE {}
         IN  /\ last'.rejected = {} =>
                   (returned = {TRUE} /\ raised = {} /\ workflows' = workflows \cup {doc})
             /\ last'.rejected = {DuplicateKeyError} =>
                   (returned = {FALSE} /\ raised = {} /\ workflows' = workflows)
             /\ last'.rejected \notin {{}, {DuplicateKeyError}} =>
                   (returned = {} /\ raised = last'.rejected /\ workflows' = workflows)]_vars

C11_Witness ==
    /\ last.op = "insert"
    /\ "thrown" \in DOMAIN last
    /\ last.thrown = {[name |-> "MongoError", code |-> {11000}]}
    /\ workflows # {}

\* C12: in the example scenario the insert returns true, the first claim
\* returns wf-1, the same claim made again returns nothing, a claim made after
\* the first lease returns wf-1, and a claim made after setAsFinished returns
\* nothing.
C12_ExampleScenario ==
    /\ (scen.pos = 1 /\ last.op = "insert") => last.result = TRUE
    /\ (scen.pos = 2 /\ last.op = "claim") => last.result = {"wf-1"}
    /\ (scen.pos = 3 /\ last.op = "claim") => last.result = {}
    /\ (scen.pos = 4 /\ last.op = "claim") => last.result = {"wf-1"}
    /\ (scen.pos = 6 /\ last.op = "claim") => last.result = {}

C12_Witness ==
    /\ scen.pos = 6
    /\ last.op = "claim"
    /\ \E d \in workflows : Expired(d, last.now)

\* C13: on a stored instance, findOutput after updateOutput(id, s, V, T)
\* returns V and findWakeUpAt after updateWakeUpAt(id, n, W, T) returns W;
\* what is read for a key changes only when that key is written (so a key
\* never written reads as absent, and writing a key leaves the others).
C13_MemoRoundTrip ==
    /\ []((last.op = "updateOutput" /\ Exists(last.id) /\ "thrown" \notin DOMAIN last)
             => FindOutput(workflows, last.id, last.stepId) = {[value |-> last.output]})
    /\ []((last.op = "updateWakeUpAt" /\ Exists(last.id) /\ "thrown" \notin DOMAIN last)
             => FindWakeUpAt(workflows, last.id, last.napId) = {[value |-> last.wakeUpAt]})
    /\ [][\A i \in WorkflowIds : \A k \in MemoKeys :
             /\ FindOutput(workflows', i, k) # FindOutput(workflows, i, k)
                   => (last'.op = "updateOutput" /\ last'.id = i /\ last'.stepId = k)
             /\ FindWakeUpAt(workflows', i, k) # FindWakeUpAt(workflows, i, k)
                   => (last'.op = "updateWakeUpAt" /\ last'.id = i /\ last'.napId = k)]_vars

\* C14: on a stored instance, right after updateStatus(id, S, T, F, E),
\* findStatus(id) returns S and findRunData(id) returns failures = F with the
\* handler and the input given at insert.
C14_StatusRoundTrip ==
    (last.op = "updateStatus" /\ Exists(last.id)) =>
        /\ ENABLED (findStatus(last.id) /\ last'.result = {last.status})
        /\ ~ ENABLED (findStatus(last.id) /\ last'.result # {last.status})
        /\ \A r \in [handler : Handlers, input : Inputs, failures : SUBSET (0 .. MaxFailures)] :
              ENABLED (findRunData(last.id) /\ last'.result = {r})
                  <=> /\ r.failures = {last.failures}
                      /\ [handler |-> r.handler, input |-> r.input] \in given[last.id]
        /\ ~ ENABLED (findRunData(last.id) /\ last'.result = {})

C14_Witness ==
    /\ last.op = "updateStatus"
    /\ last.status = "failed"
    /\ last.failures = MaxFailures
    /\ \E d \in workflows : d.id = last.id /\ d.handler = "h2"

\* C15: a read never changes the store; on an id that was never inserted the
\* four finds return absent, and setAsFinished, updateStatus, updateOutput and
\* updateWakeUpAt raise nothing and leave the store as it is (they create no
\* instance).
C15_AbsentInstance ==
    [][LET finds == {"findOutput", "findWakeUpAt", "findRunData", "findStatus"}
           updates == {"setAsFinished", "updateStatus", "updateOutput", "updateWakeUpAt"}
       IN  /\ last'.op \in finds => workflows' = workflows
           /\ (last'.op \in finds /\ ~Exists(last'.id)) => last'.result = {}
           /\ (last'.op \in updates /\ ~Exists(last'.id)) =>
                  /\ workflows' = workflows
                  /\ "thrown" \notin DOMAIN last']_vars

C15_Witness ==
    /\ last.op \in {"updateOutput", "findStatus"}
    /\ last.id = "wf-2"
    /\ ~Exists("wf-2")
    /\ Exists("wf-1")

\* C16: the timeoutAt written last is the lease. Right after updateOutput or
\* updateWakeUpAt with timeoutAt T on a running instance, or after
\* updateStatus(id, failed, T, ..), a claim made at now returns the instance
\* for no now <= T and can return it for every now > T.
C16_LastWrittenLease ==
    LET extended == /\ last.op \in {"updateOutput", "updateWakeUpAt"}
                    /\ "thrown" \notin DOMAIN last
                    /\ \E d \in workflows : d.id = last.id /\ d.status = "running"
        failed == /\ last.op = "updateStatus"
                  /\ last.status = "failed"
                  /\ Exists(last.id)
    IN  (extended \/ failed) =>
            \A now \in Dates : \A t \in LeaseDates(now) :
                ClaimableAt(last.id, now, t) <=> now > last.timeoutAt

C16_Witness ==
    /\ last.op = "updateOutput"
    /\ \E d \in workflows : d.id = last.id /\ d.status = "running"
    /\ last.timeoutAt > clock + MaxLease

\* C17: no write is fenced. Every setAsFinished, updateStatus, updateOutput
\* and updateWakeUpAt on a stored instance is applied, whoever holds the
\* lease: nothing is raised and the store holds what the call wrote, over the
\* holder's status and timeoutAt. (The witness is the execution: a claim, the
\* lease expiring, a second claim, then a write at a time the second lease
\* covers.)
C17_NoFencing ==
    [][(last'.op \in {"setAsFinished", "updateStatus", "updateOutput", "updateWakeUpAt"}
          /\ Exists(last'.id)) =>
         /\ "thrown" \notin DOMAIN last'
         /\ \E d \in workflows' :
              /\ d.id = last'.id
              /\ last'.op = "setAsFinished" => d.status = "finished"
              /\ last'.op = "updateStatus" =>
                    /\ d.status = last'.status
                    /\ d.timeoutAt = {last'.timeoutAt}
                    /\ d.failures = {last'.failures}
                    /\ d.lastError = {last'.lastError}
              /\ last'.op = "updateOutput" =>
                    /\ d.timeoutAt = {last'.timeoutAt}
                    /\ FindOutput(workflows', d.id, last'.stepId) = {[value |-> last'.output]}
              /\ last'.op = "updateWakeUpAt" =>
                    /\ d.timeoutAt = {last'.timeoutAt}
                    /\ FindWakeUpAt(workflows', d.id, last'.napId) = {[value |-> last'.wakeUpAt]}]_vars

C17_Witness ==
    /\ last.op = "updateStatus"
    /\ last.reclaimed
    /\ last.status = "failed"
    /\ last.timeoutAt < clock
    /\ \E d \in workflows :
          d.id = last.id /\ d.status = "failed" /\ d.timeoutAt = {last.timeoutAt}

\* C18: every stored instance whose status is running or failed has a
\* timeoutAt, and every step that changes an instance's status to running,
\* failed or aborted writes its timeoutAt in the same step.
C18_LeaseAlwaysSet ==
    /\ [](\A d \in workflows :
             d.status \in {"running", "failed"} => d.timeoutAt # {})
    /\ [][\A d \in workflows : \A e \in workflows' :
             (e.id = d.id /\ e.status # d.status
                 /\ e.status \in {"running", "failed", "aborted"}) =>
                \/ last'.op = "updateStatus" /\ e.timeoutAt = {last'.timeoutAt}
                \/ last'.op = "claim"
                     /\ e.timeoutAt \in {{last'.now}, {last'.leaseUntil}}]_vars

C18_Witness ==
    /\ last.op = "claim"
    /\ \E w \in last.was : w.status = "idle" /\ w.timeoutAt = {}
    /\ \E d \in workflows :
          d.id \in last.result /\ d.status = "running" /\ d.timeoutAt # {}

\* C19: a claim that returns an id changes the instance with that id and no
\* other, and of that instance only status, to running, and timeoutAt, to
\* leaseUntil; a claim that returns absent leaves the store as it is.
C19_ClaimFrame ==
    [][last'.op = "claim" =>
         /\ Cardinality(last'.result) <= 1
         /\ last'.result = {} => workflows' = workflows
         /\ \A i \in last'.result :
              \E d \in workflows :
                 /\ d.id = i
                 /\ workflows' = (workflows \ {d}) \cup
                       {[d EXCEPT !.status = "running",
                                  !.timeoutAt = {last'.leaseUntil}]}]_vars

\* C20: an instance is eligible at now when it is idle, or running or failed
\* with a timeoutAt before now. A claim returns absent exactly when no stored
\* instance is eligible at its now, and otherwise returns the id of an
\* instance that was eligible.
C20_ClaimReturnsEligible ==
    [][last'.op = "claim" =>
         LET eligible == {d \in workflows :
                             \/ d.status = "idle"
                             \/ /\ d.status \in {"running", "failed"}
                                /\ Expired(d, last'.now)}
         IN  /\ last'.result = {} <=> eligible = {}
             /\ last'.result \subseteq {d.id : d \in eligible}]_vars

C20_Witness ==
    /\ last.op = "claim"
    /\ \E w \in last.was : w.status = "failed" /\ Expired(w, last.now)
    /\ \E d \in workflows :
          d.id \notin last.result /\ d.status = "running" /\ d.timeoutAt = {last.now}

\* C21: of the callers that race to insert one id into a store that does not
\* hold it, at most one gets true at any moment; once every caller that called
\* has returned, exactly one got true and every other got false, none raised,
\* and the one stored instance is idle with the handler and input of the call
\* that got true.
C21_ConcurrentInserts ==
    LET called == {c \in Callers : callers[c].pc # "idle"}
        returned == {c \in Callers : callers[c].pc = "returned"}
        won == {c \in returned : callers[c].value = {TRUE}}
    IN  /\ Cardinality(won) <= 1
        /\ \A c \in returned : callers[c].thrown = {}
        /\ (called # {} /\ called = returned) =>
              \E w \in won :
                 /\ \A c \in returned \ {w} : callers[c].value = {FALSE}
                 /\ workflows = {Workflow(callers[w].id, callers[w].handler,
                                          callers[w].input)}

C21_Witness ==
    /\ \A c \in Callers : callers[c].pc = "returned"
    /\ callers[1].value = {FALSE}
    /\ callers[1].handler = "h1"
    /\ \E c \in Callers :
          /\ callers[c].value = {TRUE}
          /\ callers[c].handler = "h2"
          /\ callers[c].input = "in2"
          /\ \E d \in Callers \ {c} :
                /\ callers[d].value = {FALSE}
                /\ callers[d].handler = "h2"
                /\ callers[d].input = "in2"

\* C22: a stored instance has, in every state, the handler and the input of
\* the insert that created it, no step changes them, and findRunData returns
\* them.
C22_ImmutableInput ==
    /\ [](\A d \in workflows :
             /\ given[d.id] = {[handler |-> d.handler, input |-> d.input]}
             /\ \A r \in FindRunData(workflows, d.id) :
                   [handler |-> r.handler, input |-> r.input] \in given[d.id])
    /\ []((last.op = "findRunData" /\ Exists(last.id)) =>
             /\ last.result # {}
             /\ \A r \in last.result :
                   [handler |-> r.handler, input |-> r.input] \in given[last.id])
    /\ [][\A d \in workflows : \A e \in workflows' :
             e.id = d.id => (e.handler = d.handler /\ e.input = d.input)]_vars

C22_Witness ==
    /\ last.op = "insert"
    /\ last.result = FALSE
    /\ \E d \in workflows :
          /\ d.id = last.id
          /\ d.handler # last.handler
          /\ d.input # last.input
          /\ d.status = "finished"
          /\ d.failures # {}
          /\ d.steps # <<>>
          /\ d.naps # <<>>

\* C23: the memo maps only grow. A step id (nap id) recorded by updateOutput
\* (updateWakeUpAt) has an entry right after the call; an id that has an entry
\* has one in every later state, and nothing stored in steps or naps is ever
\* removed; claim, updateStatus and setAsFinished leave both maps as they are.
C23_AppendOnlyMemo ==
    /\ []((last.op = "updateOutput" /\ Exists(last.id) /\ "thrown" \notin DOMAIN last)
             => FindOutput(workflows, last.id, last.stepId) # {})
    /\ []((last.op = "updateWakeUpAt" /\ Exists(last.id) /\ "thrown" \notin DOMAIN last)
             => FindWakeUpAt(workflows, last.id, last.napId) # {})
    /\ [][\A d \in workflows : \A e \in workflows' :
             e.id = d.id =>
                /\ \A k \in MemoKeys \cup StepIds :
                      FindOutput(workflows, d.id, k) # {}
                          => FindOutput(workflows', d.id, k) # {}
                /\ \A k \in MemoKeys \cup NapIds :
                      FindWakeUpAt(workflows, d.id, k) # {}
                          => FindWakeUpAt(workflows', d.id, k) # {}
                /\ DOMAIN d.steps \subseteq DOMAIN e.steps
                /\ DOMAIN d.naps \subseteq DOMAIN e.naps
                /\ last'.op \in {"claim", "updateStatus", "setAsFinished"}
                      => (e.steps = d.steps /\ e.naps = d.naps)]_vars

\* C24: setAsFinished on a stored instance, whatever its status, sets the
\* status to finished and changes nothing else, in that instance or in any
\* other; a second setAsFinished right after it leaves the store as the first
\* left it.
C24_SetAsFinishedIdempotent ==
    /\ [][(last'.op = "setAsFinished" /\ Exists(last'.id)) =>
            \E d \in workflows :
               /\ d.id = last'.id
               /\ workflows' = (workflows \ {d}) \cup {[d EXCEPT !.status = "finished"]}]_vars
    /\ []((last.op = "setAsFinished" /\ Exists(last.id)) =>
            /\ ENABLED (setAsFinished(last.id) /\ workflows' = workflows)
            /\ ~ ENABLED (setAsFinished(last.id) /\ workflows' # workflows))

C24_Witness ==
    /\ last.op = "setAsFinished"
    /\ last.was = {"finished"}
    /\ \E d \in workflows :
          /\ d.id = last.id
          /\ d.status = "finished"
          /\ d.timeoutAt # {}
          /\ d.failures # {}
          /\ d.steps # <<>>
          /\ d.naps # <<>>

====
